---- MODULE Spec2Model ----
(***************************************************************************)
(* Textify backend (src/backend/server.js; src/server.js carries the same  *)
(* handlers): the OTP store with its send-otp / verify-otp handlers, and   *)
(* the profile store with its create / update / fetch handlers.            *)
(*                                                                         *)
(* Request bodies are JSON: every field is a tagged value (undefined when  *)
(* the request does not carry it), so that JavaScript truthiness (!x) and  *)
(* strict equality (===) are computed as the interpreter computes them.    *)
(*                                                                         *)
(* The two stores are plain objects ({}), keyed by whatever string the     *)
(* request gives as phone number.  A lookup store[k] therefore walks the   *)
(* prototype chain: it finds the names every object inherits from          *)
(* Object.prototype (constructor, toString, ...), the key "__proto__"      *)
(* reads and replaces the store's prototype, and delete removes own        *)
(* properties only.  The model keeps, for each store, its own properties   *)
(* and its prototype, and the properties the handlers have added to the    *)
(* built-in objects they can reach.                                        *)
(***************************************************************************)
EXTENDS Integers, Sequences, FiniteSets, Bags

VARIABLES
    otpStore,   \* [own, proto]: key -> { otp, expiry }      (server.js:13)
    userStore,  \* [own, proto]: key -> profile object       (server.js:15)
    intrinsics, \* built-in object -> the properties the handlers added to it
    now,        \* the value Date.now() returns, in ms
    pending,    \* bag of the send-otp requests suspended at
                \* `await client.messages.create`, each with its phone number,
                \* its code and a history flag `stale`
    last        \* the handler step that ran last: its request and its response

vars == <<otpStore, userStore, intrinsics, now, pending, last>>

----------------------------------------------------------------------------
(* Bounds of the model. *)

\* The clock is read at startup, and from startup + TTL on for MaxSlack ms.
MaxSlack == 1
\* Send-otp requests that may be suspended at the delivery call at once.
MaxPending == 1
\* The same, in RaceSpec.
MaxRacing == 2
\* The codes drawn: CodeSpan + 1 values from the low end, and the high end.
CodeSpan == 0

----------------------------------------------------------------------------
(* JavaScript values and the operators the handlers apply to them. *)

Undefined == [type |-> "undefined"]
Null == [type |-> "null"]
Str(s) == [type |-> "string", val |-> s]
Num(n) == [type |-> "number", val |-> n]
\* An object created by an object literal: its own properties; its prototype
\* is Object.prototype.
Object(props) == [type |-> "object", props |-> props]
\* A built-in function, by the name Object.prototype has it under.
Fn(name) == [type |-> "function", name |-> name]
\* The object Object.prototype itself.
ObjectPrototype == [type |-> "prototype"]

\* ToBoolean: undefined, null, "" and 0 are falsy; objects and functions are
\* truthy.
Truthy(v) ==
    \/ v.type = "string" /\ v.val # ""
    \/ v.type = "number" /\ v.val # 0
    \/ v.type \in {"object", "function", "prototype"}

Not(v) == ~Truthy(v)

\* a === b : same type and same value, no coercion.
StrictEquals(a, b) ==
    /\ a.type = b.type
    /\ (a.type \in {"string", "number"} => a.val = b.val)

DigitChar == <<"0", "1", "2", "3", "4", "5", "6", "7", "8", "9">>

\* Number.prototype.toString() of a non-negative integer: its decimal digits.
RECURSIVE toString(_)
toString(n) ==
    IF n < 10 THEN DigitChar[n + 1]
    ELSE toString(n \div 10) \o DigitChar[(n % 10) + 1]

\* Property maps: the own properties of one object, name -> value.
EmptyObject == [x \in {} |-> Undefined]
Has(props, k) == k \in DOMAIN props
Put(props, k, v) == [x \in DOMAIN props \cup {k} |-> IF x = k THEN v ELSE props[x]]
Drop(props, k) == [x \in DOMAIN props \ {k} |-> props[x]]

\* The functions every object inherits from Object.prototype.
BuiltinFunctions ==
    {"constructor", "hasOwnProperty", "isPrototypeOf", "propertyIsEnumerable",
     "toLocaleString", "toString", "valueOf", "__defineGetter__",
     "__defineSetter__", "__lookupGetter__", "__lookupSetter__"}

IntrinsicNames == {"Object.prototype"} \cup BuiltinFunctions

\* const otpStore = {};  const userStore = {};
EmptyStore == [own |-> EmptyObject, proto |-> ObjectPrototype]

\* What a property read finds on Object.prototype, for a name other than
\* "__proto__": a property a handler has added there, a built-in function,
\* or nothing.
ObjectPrototypeGet(h, k) ==
    IF Has(h["Object.prototype"], k) THEN h["Object.prototype"][k]
    ELSE IF k \in BuiltinFunctions THEN Fn(k)
    ELSE Undefined

\* The key a value names when used as store[value].
PropertyKey(v) == IF v.type = "number" THEN toString(v.val) ELSE v.val

\* store[k] : own property, then the store's prototype chain; "__proto__" is
\* the accessor that returns the store's prototype.
GetProp(h, store, k) ==
    IF Has(store.own, k) THEN store.own[k]
    ELSE IF k = "__proto__" THEN store.proto
    ELSE IF store.proto # ObjectPrototype /\ Has(store.proto.props, k)
    THEN store.proto.props[k]
    ELSE ObjectPrototypeGet(h, k)

\* store[k] = v, v an object: "__proto__" makes v the store's prototype and
\* creates no property; any other key creates or replaces an own property.
SetProp(store, k, v) ==
    IF k = "__proto__" THEN [store EXCEPT !.proto = v]
    ELSE [store EXCEPT !.own = Put(store.own, k, v)]

\* delete store[k] : removes an own property, never an inherited one.
DeleteProp(store, k) == [store EXCEPT !.own = Drop(store.own, k)]

\* value.k for a value that a store lookup returned and a name k other than
\* "__proto__".
Get(h, value, k) ==
    IF value.type = "object" /\ Has(value.props, k) THEN value.props[k]
    ELSE IF value.type = "function" /\ Has(h[value.name], k) THEN h[value.name][k]
    ELSE ObjectPrototypeGet(h, k)

\* req.body.k of a body express.json() parsed: a plain object, so a field
\* the request does not carry is looked up on Object.prototype.
BodyField(h, body, k) ==
    IF body[k] # Undefined THEN body[k] ELSE ObjectPrototypeGet(h, k)

\* res.status(s).json({success, message})
Json(s, ok, msg) == [status |-> s, success |-> ok, message |-> msg]

----------------------------------------------------------------------------
(* The clock. *)

TTL == 5 * 60 * 1000

\* The instants at which the model lets a request arrive.
ClockValues == {0} \cup (TTL .. (TTL + MaxSlack))

----------------------------------------------------------------------------
(* POST /api/send-otp *)

OtpMin == 100000
OtpMax == 999999

\* crypto.randomInt(min, max): an integer n with min <= n < max.
randomInt(min, max) == min .. (max - 1)

\* The values of randomInt(OtpMin, OtpMax) the model draws: the CodeSpan + 1
\* values from OtpMin up, and those it can return among OtpMax - 1, OtpMax.
DrawnCodes ==
    {n \in (OtpMin .. (OtpMin + CodeSpan)) \cup ((OtpMax - 1) .. OtpMax) :
        n \in randomInt(OtpMin, OtpMax)}

\* Phone numbers the requests write under: an ordinary one, and the name of
\* the prototype accessor.
Phones == {"+1", "__proto__"}

\* Further phone numbers the requests look up: the name of a built-in
\* function, and the names of the fields of the stored records.
InheritedPhones == {"constructor"}
OtpFieldPhones == {"otp"}
ProfileFieldPhones == {"name"}

SendOtpBodies ==
    {[phoneNumber |-> p] : p \in {Str(x) : x \in Phones} \cup {Str(""), Undefined}}

\* A request suspended at client.messages.create({body, from, to}).  Its
\* flag `stale` records history: since the request wrote its record, a later
\* send-otp has written under the same phone number or a verify-otp for it
\* has succeeded.
Awaiting(to, otp) == [to |-> to, otp |-> otp, stale |-> FALSE]

Suspend(bag, request) == bag (+) SetToBag({request})
Resume(bag, request) == bag (-) SetToBag({request})

\* The record of phoneNumber is written or deleted: every request in flight
\* for that phone number has its flag raised.
Supersede(bag, phoneNumber) ==
    LET Raised(r) == IF r.to = phoneNumber THEN [r EXCEPT !.stale = TRUE] ELSE r
    IN IF \A r \in DOMAIN bag : Raised(r) = r
       THEN bag
       ELSE [t \in {Raised(r) : r \in DOMAIN bag} |->
               IF t.to = phoneNumber
               THEN CopiesIn(t, bag) + CopiesIn([t EXCEPT !.stale = FALSE], bag)
               ELSE CopiesIn(t, bag)]

NoResponse == [status |-> 0]

PhoneRequired == Json(400, FALSE, "Phone number is required.")
OtpSent == Json(200, TRUE, "OTP sent successfully.")

\* { otp, expiry }
OtpRecord(otp, expiry) == Object([otp |-> Str(otp), expiry |-> Num(expiry)])

\* Variant: a record already found under the key is kept, the new code is
\* dropped.
StoreOtpIfAbsent(store, phoneNumber, data) ==
    IF Has(store.own, phoneNumber) \/ (phoneNumber = "__proto__" /\ store.proto # ObjectPrototype)
    THEN store
    ELSE SetProp(store, phoneNumber, data)

\* otpStore[phoneNumber] = { otp, expiry }
StoreOtp(store, phoneNumber, data) == SetProp(store, phoneNumber, data)

\* const expiry = Date.now() + 5 * 60 * 1000
Expiry(t) == t + TTL

\* The handler up to its await: validation, generation, the store write and
\* the start of the delivery call.
SendOtp(body) ==
    LET phoneNumber == BodyField(intrinsics, body, "phoneNumber")
    IN IF Not(phoneNumber)
       THEN /\ last' = [op |-> "send-otp", body |-> body, res |-> PhoneRequired]
            /\ UNCHANGED <<otpStore, userStore, intrinsics, now, pending>>
       ELSE /\ \E n \in DrawnCodes :
                 LET otp == toString(n)
                     expiry == Expiry(now)
                     key == PropertyKey(phoneNumber)
                 IN /\ otpStore' = StoreOtp(otpStore, key, OtpRecord(otp, expiry))
                    /\ pending' = Suspend(Supersede(pending, key), Awaiting(key, otp))
                    /\ last' = [op |-> "send-otp", body |-> body, res |-> NoResponse,
                                otp |-> otp,
                                prior |-> GetProp(intrinsics, otpStore, key)]
            /\ UNCHANGED <<userStore, intrinsics, now>>

\* Variant: the record is written once the delivery call has resolved.
MessagesCreateResolveThenStore(r) ==
    /\ BagIn(r, pending)
    /\ pending' = Resume(pending, r)
    /\ otpStore' = StoreOtp(otpStore, r.to, OtpRecord(r.otp, Expiry(now)))
    /\ last' = [op |-> "send-otp-delivered", to |-> r.to, otp |-> r.otp,
                stale |-> r.stale, res |-> OtpSent]
    /\ UNCHANGED <<userStore, intrinsics, now>>

\* The delivery call resolves: the handler resumes after the await.
MessagesCreateResolve(r) ==
    /\ BagIn(r, pending)
    /\ pending' = Resume(pending, r)
    /\ last' = [op |-> "send-otp-delivered", to |-> r.to, otp |-> r.otp,
                stale |-> r.stale, res |-> OtpSent]
    /\ UNCHANGED <<otpStore, userStore, intrinsics, now>>

\* Errors the SMS provider's client rejects with: a REST exception (HTTP
\* status, provider code, provider message) or a transport error.
ProviderErrors ==
    {[status |-> 400, code |-> 21211, message |-> "Invalid 'To' Phone Number"],
     [code |-> "ECONNREFUSED", message |-> "connect ECONNREFUSED"]}

SendFailedMessage == "Failed to send OTP. Please check the phone number and try again."

\* The centralized error-handling middleware.
ErrorHandler(err) ==
    LET clientMessage == IF "clientMessage" \in DOMAIN err /\ err.clientMessage # ""
                         THEN err.clientMessage
                         ELSE "An internal server error occurred."
        statusCode == IF "statusCode" \in DOMAIN err /\ err.statusCode # 0
                      THEN err.statusCode
                      ELSE 500
    IN Json(statusCode, FALSE, clientMessage)

\* Variant: the catch block also removes the record the request wrote.
MessagesCreateRejectWithRollback(r, error) ==
    /\ BagIn(r, pending)
    /\ pending' = Resume(pending, r)
    /\ otpStore' = IF r.to = "__proto__" THEN [otpStore EXCEPT !.proto = ObjectPrototype]
                   ELSE DeleteProp(otpStore, r.to)
    /\ last' = [op |-> "send-otp-failed", to |-> r.to, otp |-> r.otp,
                stale |-> r.stale, error |-> error,
                res |-> ErrorHandler(Put(error, "clientMessage", SendFailedMessage))]
    /\ UNCHANGED <<userStore, intrinsics, now>>

\* The delivery call rejects: the catch block tags the error and hands it to
\* the error-handling middleware.
MessagesCreateReject(r, error) ==
    /\ BagIn(r, pending)
    /\ pending' = Resume(pending, r)
    /\ last' = [op |-> "send-otp-failed", to |-> r.to, otp |-> r.otp,
                stale |-> r.stale, error |-> error,
                res |-> ErrorHandler(Put(error, "clientMessage", SendFailedMessage))]
    /\ UNCHANGED <<otpStore, userStore, intrinsics, now>>

----------------------------------------------------------------------------
(* POST /api/verify-otp *)

OtpRequired == Json(400, FALSE, "Phone number and OTP are required.")
OtpNotFound == Json(400, FALSE, "OTP not found. Please request a new one.")
OtpExpired == Json(400, FALSE, "OTP has expired. Please request a new one.")
OtpInvalid == Json(400, FALSE, "Invalid OTP.")
OtpVerified == Json(200, TRUE, "Phone number verified successfully.")

\* The error `undefined.toString()` throws; the router hands it to the
\* error-handling middleware.
TypeErrorThrown ==
    [name |-> "TypeError",
     message |-> "Cannot read properties of undefined (reading 'toString')"]

\* Variant: Date.now() >= storedOtpData.expiry
HasExpiredAtDeadline(h, t, storedOtpData) ==
    LET expiry == Get(h, storedOtpData, "expiry")
    IN expiry.type = "number" /\ t >= expiry.val

\* Date.now() > storedOtpData.expiry : false when there is no expiry to
\* compare with (undefined converts to NaN).
HasExpired(h, t, storedOtpData) ==
    LET expiry == Get(h, storedOtpData, "expiry")
    IN expiry.type = "number" /\ t > expiry.val

\* Variant: storedOtpData.otp == otp, which converts a number to its string.
OtpMatchesLoosely(h, storedOtpData, otp) ==
    LET stored == Get(h, storedOtpData, "otp")
    IN IF otp.type = "number" /\ stored.type = "string"
       THEN stored.val = toString(otp.val)
       ELSE StrictEquals(stored, otp)

\* storedOtpData.otp.toString() === otp, for a stored otp that is defined
\* (toString() of a string is that string).
OtpMatches(h, storedOtpData, otp) ==
    LET stored == Get(h, storedOtpData, "otp")
    IN StrictEquals(IF stored.type = "number" THEN Str(toString(stored.val)) ELSE stored,
                    otp)

\* Variant: the record is left in the store.
KeepOtp(store, phoneNumber) == store

\* delete otpStore[phoneNumber]
ConsumeOtp(store, phoneNumber) == DeleteProp(store, phoneNumber)

\* Variant: a record found expired is deleted on the way out.
verifyOtpPurgingExpired(h, store, t, body) ==
    LET phoneNumber == BodyField(h, body, "phoneNumber")
        otp == BodyField(h, body, "otp")
    IN IF Not(phoneNumber) \/ Not(otp)
       THEN [res |-> OtpRequired, store |-> store]
       ELSE LET storedOtpData == GetProp(h, store, PropertyKey(phoneNumber))
            IN IF Not(storedOtpData)
               THEN [res |-> OtpNotFound, store |-> store]
               ELSE IF HasExpired(h, t, storedOtpData)
               THEN [res |-> OtpExpired,
                     store |-> IF PropertyKey(phoneNumber) = "__proto__"
                               THEN [store EXCEPT !.proto = ObjectPrototype]
                               ELSE DeleteProp(store, PropertyKey(phoneNumber))]
               ELSE IF Get(h, storedOtpData, "otp").type \in {"undefined", "null"}
               THEN [res |-> ErrorHandler(TypeErrorThrown), store |-> store]
               ELSE IF OtpMatches(h, storedOtpData, otp)
               THEN [res |-> OtpVerified,
                     store |-> ConsumeOtp(store, PropertyKey(phoneNumber))]
               ELSE [res |-> OtpInvalid, store |-> store]

\* The handler as a function of the built-in objects, the store, the clock
\* and the request body: the response it sends and the store it leaves.
verifyOtp(h, store, t, body) ==
    LET phoneNumber == BodyField(h, body, "phoneNumber")
        otp == BodyField(h, body, "otp")
    IN IF Not(phoneNumber) \/ Not(otp)
       THEN [res |-> OtpRequired, store |-> store]
       ELSE LET storedOtpData == GetProp(h, store, PropertyKey(phoneNumber))
            IN IF Not(storedOtpData)
               THEN [res |-> OtpNotFound, store |-> store]
               ELSE IF HasExpired(h, t, storedOtpData)
               THEN [res |-> OtpExpired, store |-> store]
               ELSE IF Get(h, storedOtpData, "otp").type \in {"undefined", "null"}
               THEN [res |-> ErrorHandler(TypeErrorThrown), store |-> store]
               ELSE IF OtpMatches(h, storedOtpData, otp)
               THEN [res |-> OtpVerified,
                     store |-> ConsumeOtp(store, PropertyKey(phoneNumber))]
               ELSE [res |-> OtpInvalid, store |-> store]

SubmittedOtps ==
    {Str(toString(n)) : n \in DrawnCodes} \cup {Num(OtpMin), Str(""), Undefined}

VerifyOtpBodies ==
    {[phoneNumber |-> Str(x), otp |-> o] : x \in Phones, o \in SubmittedOtps}
    \cup {[phoneNumber |-> p, otp |-> Str(toString(OtpMin))] :
             p \in {Str(x) : x \in InheritedPhones \cup OtpFieldPhones}
                   \cup {Str(""), Undefined}}

\* Variant: the handler waits until no delivery call is outstanding.
VerifyOtpOnceDelivered(body) ==
    LET out == verifyOtp(intrinsics, otpStore, now, body)
    IN /\ pending = EmptyBag
       /\ otpStore' = out.store
       /\ last' = [op |-> "verify-otp", body |-> body, res |-> out.res]
       /\ UNCHANGED <<userStore, intrinsics, now, pending>>

VerifyOtp(body) ==
    LET out == verifyOtp(intrinsics, otpStore, now, body)
    IN /\ otpStore' = out.store
       /\ last' = [op |-> "verify-otp", body |-> body, res |-> out.res]
       /\ pending' = IF out.res = OtpVerified
                     THEN Supersede(pending, body.phoneNumber.val)
                     ELSE pending
       /\ UNCHANGED <<userStore, intrinsics, now>>

----------------------------------------------------------------------------
(* Profile endpoints. *)

\* The names the creates give, and those the updates change them to.
Names == {"A"}
NewNames == {"B"}
Abouts == {"hi"}

NoFile == Undefined

\* multer's disk storage: the uploaded file lands in uploads/ under the name
\* `${Date.now()}-${path.extname(file.originalname)}`, the clock being read
\* when the upload is stored; req.file.path is that place.  An upload is
\* given by the extension of its original name.
StoredFile(t, ext) == [type |-> "object", path |-> "uploads/" \o toString(t) \o "-" \o ext]

Uploads == {".png"}

\* req.file as the handler may find it at clock value t: no file, or a file
\* that multer stored before the handler runs, at t or at any earlier clock
\* value.
Files(t) ==
    {NoFile} \cup {StoredFile(u, ext) : u \in {c \in ClockValues : c <= t}, ext \in Uploads}

\* The content types the profile routes parse: express.json() builds the
\* body of an application/json request, upload.single('profilePicture')
\* that of a multipart/form-data request, with or without a file part.
JsonBody == "application/json"
FormData == "multipart/form-data"
ContentTypes == {JsonBody, FormData}

\* req.body.k in the profile handlers.  multer builds the body of a
\* multipart request without a prototype, so a field the form leaves out is
\* undefined; a JSON body is a plain object.
Field(h, contentType, body, k) ==
    IF contentType = FormData THEN body[k] ELSE BodyField(h, body, k)

NameRequired == Json(400, FALSE, "Name and phone number are required.")
ProfileUpdated == Json(200, TRUE, "Profile updated successfully.")
UserNotFound == Json(404, FALSE, "User not found.")

\* JSON.stringify of { ...res, user }: a function is left out, as undefined
\* is; an object shows its own properties.
WithUser(res, h, user) ==
    IF user.type \in {"function", "undefined"} THEN res
    ELSE IF user = ObjectPrototype THEN Put(res, "user", Object(h["Object.prototype"]))
    ELSE Put(res, "user", user)

\* POST /api/profile as a function of the built-in objects, the store, the
\* request's content type, the body and req.file.
createProfile(h, store, contentType, body, file) ==
    LET name == Field(h, contentType, body, "name")
        phoneNumber == Field(h, contentType, body, "phoneNumber")
    IN IF Not(name) \/ Not(phoneNumber)
       THEN [res |-> NameRequired, store |-> store]
       ELSE LET profilePicturePath == IF Truthy(file) THEN Str(file.path) ELSE Null
            IN [res |-> ProfileUpdated,
                store |-> SetProp(store, PropertyKey(phoneNumber),
                                  Object([name |-> name,
                                          profilePicture |-> profilePicturePath]))]

\* The properties an assignment to user.field works on: those of a stored
\* record, or those the handlers have added to a built-in object.
OwnProps(h, user) ==
    IF user.type = "object" THEN user.props
    ELSE IF user = ObjectPrototype THEN h["Object.prototype"]
    ELSE IF user.type = "function" THEN h[user.name]
    ELSE EmptyObject

\* user.field = value : sets an own property of an object; does nothing on a
\* string, nor for the read-only `name` of a function (the module is not in
\* strict mode, so neither throws).
Assign(user, props, field, value) ==
    IF user.type \in {"object", "prototype"} \/ (user.type = "function" /\ field # "name")
    THEN Put(props, field, value)
    ELSE props

\* Variant: user.field = value, whether or not the request carries it.
AssignAlways(user, props, field, value) == Assign(user, props, field, value)

\* if (value) { user.field = value; }
AssignIfProvided(user, props, field, value) ==
    IF Truthy(value) THEN Assign(user, props, field, value) ELSE props

\* PUT /api/profile/:phoneNumber as a function of the built-in objects, the
\* store, the route parameter, the request's content type, the body and
\* req.file: the response, the store and the built-in objects it leaves.
updateProfile(h, store, phoneNumber, contentType, body, file) ==
    LET name == Field(h, contentType, body, "name")
        about == Field(h, contentType, body, "about")
        user == GetProp(h, store, phoneNumber)
    IN IF Not(user)
       THEN [res |-> UserNotFound, store |-> store, intrinsics |-> h]
       ELSE LET props0 == OwnProps(h, user)
                props1 == AssignIfProvided(user, props0, "name", name)
                props2 == AssignIfProvided(user, props1, "about", about)
                props3 == IF Truthy(file)
                          THEN Assign(user, props2, "profilePicture", Str(file.path))
                          ELSE props2
                store1 == IF user.type # "object" THEN store
                          ELSE IF Has(store.own, phoneNumber)
                          THEN [store EXCEPT !.own = Put(store.own, phoneNumber, Object(props3))]
                          ELSE [store EXCEPT !.proto = Object(props3)]
                h1 == IF user = ObjectPrototype
                      THEN [h EXCEPT !["Object.prototype"] = props3]
                      ELSE IF user.type = "function"
                      THEN [h EXCEPT ![user.name] = props3]
                      ELSE h
            IN [res |-> WithUser(ProfileUpdated, h1, GetProp(h1, store1, phoneNumber)),
                store |-> store1,
                intrinsics |-> h1]

\* GET /api/profile/:phoneNumber
getProfile(h, store, phoneNumber) ==
    LET user == GetProp(h, store, phoneNumber)
    IN IF Truthy(user)
       THEN WithUser([status |-> 200, success |-> TRUE], h, user)
       ELSE UserNotFound

CreateBodies ==
    {[name |-> n, phoneNumber |-> p] :
        n \in {Str(x) : x \in Names} \cup {Str(""), Undefined},
        p \in {Str(x) : x \in Phones} \cup {Undefined}}

UpdateBodies ==
    {[name |-> n, about |-> a] :
        n \in {Str(x) : x \in NewNames} \cup {Str(""), Undefined},
        a \in {Str(x) : x \in Abouts} \cup {Str(""), Undefined}}

\* The phone numbers the update and fetch routes are asked for.
ProfilePhones == Phones \cup InheritedPhones \cup ProfileFieldPhones

\* The phone numbers that name something a store inherits.
ChainPhones == {"__proto__"} \cup InheritedPhones \cup OtpFieldPhones \cup ProfileFieldPhones

\* The requests the model makes.  A file part comes in a multipart request
\* only.  For an ordinary phone number: every body and every file, in
\* either content type; for a phone number that names something inherited:
\* the JSON requests, an update carrying one field (a name for the
\* prototype accessor, an about for the others).
CreateRequests(t) ==
    [contentType : {JsonBody}, body : CreateBodies, file : {NoFile}]
    \cup [contentType : {FormData},
          body : {b \in CreateBodies : b.phoneNumber \notin {Str(x) : x \in ChainPhones}},
          file : Files(t)]

UpdateRequests(t) ==
    [phoneNumber : ProfilePhones \ ChainPhones, contentType : {JsonBody},
     body : UpdateBodies, file : {NoFile}]
    \cup [phoneNumber : ProfilePhones \ ChainPhones, contentType : {FormData},
          body : UpdateBodies, file : Files(t)]
    \cup {[phoneNumber |-> p, contentType |-> JsonBody, file |-> NoFile,
           body |-> IF p = "__proto__" THEN [name |-> Str("B"), about |-> Undefined]
                    ELSE [name |-> Undefined, about |-> Str("hi")]] :
             p \in ProfilePhones \cap ChainPhones}

CreateProfile(contentType, body, file) ==
    LET out == createProfile(intrinsics, userStore, contentType, body, file)
    IN /\ file # NoFile => contentType = FormData
       /\ userStore' = out.store
       /\ last' = [op |-> "create-profile", contentType |-> contentType,
                   body |-> body, file |-> file, res |-> out.res]
       /\ UNCHANGED <<otpStore, intrinsics, now, pending>>

UpdateProfile(phoneNumber, contentType, body, file) ==
    LET out == updateProfile(intrinsics, userStore, phoneNumber, contentType, body, file)
    IN /\ file # NoFile => contentType = FormData
       /\ userStore' = out.store
       /\ intrinsics' = out.intrinsics
       /\ last' = [op |-> "update-profile", phoneNumber |-> phoneNumber,
                   contentType |-> contentType, body |-> body,
                   file |-> file, res |-> out.res]
       /\ UNCHANGED <<otpStore, now, pending>>

GetProfile(phoneNumber) ==
    /\ last' = [op |-> "get-profile", phoneNumber |-> phoneNumber,
                res |-> getProfile(intrinsics, userStore, phoneNumber)]
    /\ UNCHANGED <<otpStore, userStore, intrinsics, now, pending>>

----------------------------------------------------------------------------

\* Time passes: Date.now() never goes back.
Tick(t) ==
    /\ t > now
    /\ now' = t
    /\ last' = [op |-> "tick"]
    /\ UNCHANGED <<otpStore, userStore, intrinsics, pending>>

Init ==
    /\ otpStore = EmptyStore
    /\ userStore = EmptyStore
    /\ intrinsics = [n \in IntrinsicNames |-> EmptyObject]
    /\ now = 0
    /\ pending = EmptyBag
    /\ last = [op |-> "listen"]

\* Requests in flight at the delivery call.
InFlight == BagCardinality(pending)

\* A send-otp that passes validation arrives only while fewer than `cap`
\* requests are in flight.
Admitted(body, cap) == Truthy(body.phoneNumber) => InFlight < cap

NextOtp ==
    \/ \E body \in SendOtpBodies : Admitted(body, MaxPending) /\ SendOtp(body)
    \/ \E r \in BagToSet(pending) : MessagesCreateResolve(r)
    \/ \E r \in BagToSet(pending) : \E error \in ProviderErrors : MessagesCreateReject(r, error)
    \/ \E body \in VerifyOtpBodies : VerifyOtp(body)
    \/ \E t \in ClockValues : Tick(t)

NextProfile ==
    \/ \E request \in CreateRequests(now) :
          CreateProfile(request.contentType, request.body, request.file)
    \/ \E request \in UpdateRequests(now) :
          UpdateProfile(request.phoneNumber, request.contentType, request.body, request.file)
    \/ \E phoneNumber \in ProfilePhones : GetProfile(phoneNumber)
    \/ \E t \in ClockValues : Tick(t)

Next == NextOtp \/ NextProfile

\* The whole server.
Spec == Init /\ [][Next]_vars

\* The OTP endpoints alone (no profile request is ever made).
OtpSpec == Init /\ [][NextOtp]_vars

\* The profile endpoints alone (no OTP request is ever made).
ProfileSpec == Init /\ [][NextProfile]_vars

\* The OTP endpoints with up to MaxRacing send-otp requests suspended at the
\* delivery call at once while the clock stands still: codes are issued for
\* an ordinary phone number and for the name of the prototype accessor, and
\* looked up under those and under the names the store may inherit.
RacePhones == Phones
RaceLookups == InheritedPhones \cup OtpFieldPhones

RaceSendBodies == {[phoneNumber |-> Str(x)] : x \in RacePhones}

RaceVerifyBodies ==
    {[phoneNumber |-> Str(x), otp |-> o] :
        x \in RacePhones, o \in {v \in SubmittedOtps : Truthy(v)}}
    \cup {[phoneNumber |-> Str(x), otp |-> Str(toString(OtpMin))] : x \in RaceLookups}

NextRace ==
    \/ \E body \in RaceSendBodies : Admitted(body, MaxRacing) /\ SendOtp(body)
    \/ \E r \in BagToSet(pending) : MessagesCreateResolve(r)
    \/ \E r \in BagToSet(pending) : \E error \in ProviderErrors : MessagesCreateReject(r, error)
    \/ \E body \in RaceVerifyBodies : VerifyOtp(body)

RaceSpec == Init /\ [][NextRace]_vars

\* Every endpoint while the clock stands still: the OTP endpoints for an
\* ordinary phone number, verify-otp also for the name of a profile field,
\* and the profile endpoints for an ordinary phone number and the names the
\* stores inherit.
SharedSendBodies == {[phoneNumber |-> Str("+1")]}

SharedVerifyBodies ==
    {[phoneNumber |-> Str(x), otp |-> Str(toString(OtpMin))] :
        x \in {"+1"} \cup ProfileFieldPhones}

SharedCreateBodies == {[name |-> Str("A"), phoneNumber |-> Str("+1")]}

NextBothStores ==
    \/ \E body \in SharedSendBodies : Admitted(body, MaxPending) /\ SendOtp(body)
    \/ \E r \in BagToSet(pending) : MessagesCreateResolve(r)
    \/ \E r \in BagToSet(pending) : \E error \in ProviderErrors : MessagesCreateReject(r, error)
    \/ \E body \in SharedVerifyBodies : VerifyOtp(body)
    \/ \E body \in SharedCreateBodies : CreateProfile(JsonBody, body, NoFile)
    \/ \E request \in {r \in UpdateRequests(now) : r.contentType = JsonBody} :
          UpdateProfile(request.phoneNumber, request.contentType, request.body, request.file)
    \/ \E phoneNumber \in ProfilePhones : GetProfile(phoneNumber)

BothStoresSpec == Init /\ [][NextBothStores]_vars

----------------------------------------------------------------------------
(* Vocabulary of the properties.  Every action writes `last`, so in a step *)
(* last' describes the handler that ran and last the one that ran before.  *)

\* The step stores a freshly generated code (send-otp past its validation).
IssueStep == last'.op = "send-otp" /\ last'.res = NoResponse
Issued == last.op = "send-otp" /\ last.res = NoResponse

\* The step is a verify-otp whose phone number and code are both present.
VerifyStep ==
    /\ last'.op = "verify-otp"
    /\ Truthy(last'.body.phoneNumber)
    /\ Truthy(last'.body.otp)

VerifyBody(phoneNumber, otp) == [phoneNumber |-> Str(phoneNumber), otp |-> Str(otp)]

\* What a lookup of phone number P yields in each store, before the step
\* and after it.
OtpOf(P) == GetProp(intrinsics, otpStore, P)
OtpAfter(P) == GetProp(intrinsics', otpStore', P)
UserOf(P) == GetProp(intrinsics, userStore, P)
UserAfter(P) == GetProp(intrinsics', userStore', P)

\* The step leaves the OTP store and the built-in objects it inherits from
\* as they were, so every lookup in the OTP store yields what it yielded.
OtpLookupsUntouched == otpStore' = otpStore /\ intrinsics' = intrinsics

\* The step leaves the profile store and the built-in objects it inherits
\* from as they were.
UserLookupsUntouched == userStore' = userStore /\ intrinsics' = intrinsics

\* The lookup yields a record a handler stored (not a built-in object, nor
\* a field of a record).
IsRecord(v) == v.type = "object"
CodeOf(v) == v.props.otp.val
ExpiryOf(v) == v.props.expiry.val

\* The phone numbers the OTP properties speak of.
OtpPhones == Phones \cup InheritedPhones \cup OtpFieldPhones

\* The answer of the error-handling middleware to an error a handler threw.
ServerError == Json(500, FALSE, "An internal server error occurred.")

----------------------------------------------------------------------------
\* C1 as stated: a verify-otp for P with the code a send-otp has just stored
\* for P succeeds; once a verify-otp for P has succeeded, a second verify-otp
\* for P with the same code fails with "OTP not found" and changes nothing.
C1_IssueThenVerifyOnce ==
    /\ Issued
       => verifyOtp(intrinsics, otpStore, now,
                    VerifyBody(last.body.phoneNumber.val, last.otp)).res = OtpVerified
    /\ (last.op = "verify-otp" /\ last.res = OtpVerified)
       => LET second == verifyOtp(intrinsics, otpStore, now, last.body)
          IN /\ second.res = OtpNotFound
             /\ second.store = otpStore

----------------------------------------------------------------------------
\* C2 as stated: a record issued at time t expires at t + 5 minutes, and a
\* verify-otp at any clock value >= t + 5 minutes, that instant included,
\* fails with "expired" whatever the code.
C2_ExpiredFromDeadline ==
    [][ /\ IssueStep
           => ExpiryOf(OtpAfter(last'.body.phoneNumber.val)) = now + 300000
        /\ (/\ VerifyStep
            /\ IsRecord(OtpOf(last'.body.phoneNumber.val))
            /\ now >= ExpiryOf(OtpOf(last'.body.phoneNumber.val)))
           => last'.res = OtpExpired
      ]_vars

\* C2 as amended: a verify-otp at any clock value > t + 5 minutes fails with
\* "expired" even with the stored code and leaves the record; at exactly
\* t + 5 minutes the stored code is still accepted.
C2_ExpiredAfterDeadline ==
    [][ /\ IssueStep
           => ExpiryOf(OtpAfter(last'.body.phoneNumber.val)) = now + 300000
        /\ (/\ VerifyStep
            /\ IsRecord(OtpOf(last'.body.phoneNumber.val))
            /\ now > ExpiryOf(OtpOf(last'.body.phoneNumber.val)))
           => /\ last'.res = OtpExpired
              /\ otpStore' = otpStore
        /\ (/\ VerifyStep
            /\ IsRecord(OtpOf(last'.body.phoneNumber.val))
            /\ now = ExpiryOf(OtpOf(last'.body.phoneNumber.val))
            /\ last'.body.otp = Str(CodeOf(OtpOf(last'.body.phoneNumber.val))))
           => last'.res = OtpVerified
      ]_vars

\* A verify-otp carrying the stored code has been answered "expired".
C2_Witness ==
    /\ last.op = "verify-otp"
    /\ last.res = OtpExpired
    /\ now > ExpiryOf(OtpOf(last.body.phoneNumber.val))
    /\ last.body.otp = Str(CodeOf(OtpOf(last.body.phoneNumber.val)))

----------------------------------------------------------------------------
\* C3: against an unexpired record, a verify-otp whose code is present and
\* is not the stored code fails with "invalid", leaves the store as it was,
\* and the stored code still verifies afterwards.
C3_MismatchKeepsRecord ==
    [][ (/\ VerifyStep
         /\ IsRecord(OtpOf(last'.body.phoneNumber.val))
         /\ now <= ExpiryOf(OtpOf(last'.body.phoneNumber.val))
         /\ last'.body.otp # Str(CodeOf(OtpOf(last'.body.phoneNumber.val))))
        => /\ last'.res = OtpInvalid
           /\ otpStore' = otpStore
           /\ verifyOtp(intrinsics', otpStore', now',
                        VerifyBody(last'.body.phoneNumber.val,
                                   CodeOf(OtpOf(last'.body.phoneNumber.val)))).res
                = OtpVerified
      ]_vars

\* A wrong code has been refused and the record is still there, unexpired.
C3_Witness ==
    /\ last.op = "verify-otp"
    /\ last.res = OtpInvalid
    /\ IsRecord(OtpOf(last.body.phoneNumber.val))
    /\ now <= ExpiryOf(OtpOf(last.body.phoneNumber.val))
    /\ last.body.otp # Str(CodeOf(OtpOf(last.body.phoneNumber.val)))

----------------------------------------------------------------------------
\* C4: a lookup of P yields one record at most, and a send-otp for P makes
\* it the record of that request, leaving the record of every other phone
\* number as it was; when it replaces a record holding another code, a
\* verify-otp with the old code then fails with "invalid" and one with the
\* new code succeeds.
C4_ReissueOverwrites ==
    [][ IssueStep
        => LET P == last'.body.phoneNumber.val
           IN /\ OtpAfter(P) = OtpRecord(last'.otp, now + TTL)
              /\ \A Q \in OtpPhones \ {P} :
                   (IsRecord(OtpOf(Q)) \/ IsRecord(OtpAfter(Q))) => OtpAfter(Q) = OtpOf(Q)
              /\ (IsRecord(OtpOf(P)) /\ CodeOf(OtpOf(P)) # last'.otp)
                 => /\ verifyOtp(intrinsics', otpStore', now',
                                 VerifyBody(P, CodeOf(OtpOf(P)))).res = OtpInvalid
                    /\ verifyOtp(intrinsics', otpStore', now',
                                 VerifyBody(P, last'.otp)).res = OtpVerified
      ]_vars

\* A send-otp has replaced an unconsumed record that held another code.
C4_Witness ==
    /\ Issued
    /\ IsRecord(last.prior)
    /\ CodeOf(last.prior) # last.otp
    /\ CodeOf(OtpOf(last.body.phoneNumber.val)) = last.otp

----------------------------------------------------------------------------
\* C5 as stated: when the store holds no record for P, a verify-otp for P
\* with a code that is present fails with "OTP not found" and leaves the
\* store unchanged.
C5_NoRecordNotFound ==
    [][ (VerifyStep /\ ~IsRecord(OtpOf(last'.body.phoneNumber.val)))
        => /\ last'.res = OtpNotFound
           /\ otpStore' = otpStore
      ]_vars

----------------------------------------------------------------------------
\* C6 as stated: every stored code is a six-digit decimal string of a value
\* in [100000, 999999], and both ends of that range, 999999 included, can
\* be issued by a send-otp.
C6_EverySixDigitCodeIssuable ==
    /\ \A P \in OtpPhones :
         IsRecord(OtpOf(P))
         => /\ Len(CodeOf(OtpOf(P))) = 6
            /\ CodeOf(OtpOf(P)) \in
                 {toString(n) : n \in (100000 .. (100000 + CodeSpan))
                                      \cup (999998 .. 999999)}
    /\ BagCardinality(pending) < MaxPending
       => \A n \in {100000, 999999} :
            ENABLED (/\ SendOtp([phoneNumber |-> Str("+1")])
                     /\ last'.otp = toString(n))

----------------------------------------------------------------------------
\* C7: when the delivery call of a send-otp fails, the response is status
\* 500, success false and the fixed client message (not the provider's), and
\* the store is left as it was; when the failure directly follows the
\* request's store write, the record holds the request's code and that code
\* verifies.
C7_FailedDeliveryKeepsRecord ==
    [][ last'.op = "send-otp-failed"
        => /\ last'.res.status = 500
           /\ last'.res.success = FALSE
           /\ last'.res.message
                = "Failed to send OTP. Please check the phone number and try again."
           /\ last'.res.message # last'.error.message
           /\ otpStore' = otpStore
           /\ (Issued /\ last.body.phoneNumber.val = last'.to /\ last.otp = last'.otp)
              => /\ IsRecord(OtpAfter(last'.to))
                 /\ CodeOf(OtpAfter(last'.to)) = last'.otp
                 /\ verifyOtp(intrinsics', otpStore', now',
                              VerifyBody(last'.to, last'.otp)).res = OtpVerified
      ]_vars

\* A delivery has failed and the code of that request is still stored.
C7_Witness ==
    /\ last.op = "send-otp-failed"
    /\ last.res.status = 500
    /\ IsRecord(OtpOf(last.to))
    /\ CodeOf(OtpOf(last.to)) = last.otp

----------------------------------------------------------------------------
\* The text a profile shows for a field: empty when the record has none.
TextOf(props, field) ==
    IF Has(props, field) /\ props[field].type = "string" THEN props[field].val ELSE ""

AboutOf(props) == TextOf(props, "about")

PropOf(props, field) == IF Has(props, field) THEN props[field] ELSE Undefined

CreateStep ==
    /\ last'.op = "create-profile"
    /\ Truthy(last'.body.name)
    /\ Truthy(last'.body.phoneNumber)

UpdateStep == last'.op = "update-profile"

\* C8 as stated: after a create with name N and phone number P and no file,
\* a fetch of P returns name N, an empty about and no picture; after an
\* update of P's record carrying only about = A (on a record whose about is
\* empty when A is), a fetch of P returns the name unchanged and about A.
C8_CreateFetchUpdateFetch ==
    [][ /\ (CreateStep /\ last'.file = NoFile)
           => LET got == getProfile(intrinsics', userStore', last'.body.phoneNumber.val)
              IN /\ got.status = 200
                 /\ got.success = TRUE
                 /\ got.user.props.name = last'.body.name
                 /\ AboutOf(got.user.props) = ""
                 /\ got.user.props.profilePicture = Null
        /\ (/\ UpdateStep
            /\ IsRecord(UserOf(last'.phoneNumber))
            /\ last'.body.name = Undefined
            /\ last'.body.about.type = "string"
            /\ last'.file = NoFile
            /\ (last'.body.about.val = "" => AboutOf(UserOf(last'.phoneNumber).props) = ""))
           => LET got == getProfile(intrinsics', userStore', last'.phoneNumber)
              IN /\ got.status = 200
                 /\ got.user.props.name = UserOf(last'.phoneNumber).props.name
                 /\ AboutOf(got.user.props) = last'.body.about.val
                 /\ last'.res.user = got.user
      ]_vars

----------------------------------------------------------------------------
\* C9 as stated: an update of an existing record sets each of name, about
\* and picture to the request's value when the request carries the field,
\* the empty string included, and keeps the prior value when it does not
\* (a record without the field counting as holding the empty string).
C9_UpdateWritesEveryCarriedField ==
    [][ (UpdateStep /\ IsRecord(UserOf(last'.phoneNumber)))
        => LET before == UserOf(last'.phoneNumber).props
               after == UserAfter(last'.phoneNumber).props
               Written(field, value) ==
                   IF value # Undefined
                   THEN TextOf(after, field) = value.val
                   ELSE PropOf(after, field) = PropOf(before, field)
           IN /\ Written("name", last'.body.name)
              /\ Written("about", last'.body.about)
              /\ IF last'.file # NoFile
                 THEN after.profilePicture = Str(last'.file.path)
                 ELSE after.profilePicture = before.profilePicture
      ]_vars

----------------------------------------------------------------------------
\* C10 as stated: an update for a phone number with no record answers 404
\* "User not found" and leaves the profile store unchanged; a create with
\* name and phone number present answers 200 success, record or no record,
\* and the record it leaves holds its name and its picture path (or none),
\* no about, and nothing of the prior record; no other record changes.
C10_UpdateNeedsRecordCreateReplaces ==
    [][ /\ (UpdateStep /\ ~IsRecord(UserOf(last'.phoneNumber)))
           => /\ last'.res = [status |-> 404, success |-> FALSE,
                              message |-> "User not found."]
              /\ userStore' = userStore
        /\ CreateStep
           => LET P == last'.body.phoneNumber.val
              IN /\ last'.res.status = 200
                 /\ last'.res.success = TRUE
                 /\ UserAfter(P) =
                      Object([name |-> last'.body.name,
                              profilePicture |-> IF last'.file = NoFile THEN Null
                                                 ELSE Str(last'.file.path)])
                 /\ \A Q \in ProfilePhones \ {P} :
                      (IsRecord(UserOf(Q)) \/ IsRecord(UserAfter(Q)))
                      => UserAfter(Q) = UserOf(Q)
      ]_vars

----------------------------------------------------------------------------
\* The kind of failure a failure response reports, read off its message.
KindOf(res) ==
    CASE res.message \in {"Phone number is required.",
                          "Phone number and OTP are required.",
                          "Name and phone number are required."} -> "ValidationError"
      [] res.message \in {"OTP not found. Please request a new one.",
                          "User not found."} -> "NotFound"
      [] res.message = "OTP has expired. Please request a new one." -> "Expired"
      [] res.message = "Invalid OTP." -> "Mismatch"
      [] res.message = SendFailedMessage -> "DeliveryError"
      [] OTHER -> "None"

StatusOfKind ==
    [ValidationError |-> 400, NotFound |-> 404, Expired |-> 400, Mismatch |-> 400,
     DeliveryError |-> 500]

\* The handler that ran last answered with a failure.
Failed == "res" \in DOMAIN last /\ "success" \in DOMAIN last.res /\ ~last.res.success

\* C11 as stated: every failure response is of one of the five kinds and
\* carries the status of its kind: 400 for a missing input, 404 for no
\* record under the key (in the OTP store as in the profile store), 400 for
\* an expired or a wrong code, 500 for a failed delivery.
C11_FailureStatusOfItsKind ==
    Failed => /\ KindOf(last.res) \in DOMAIN StatusOfKind
              /\ last.res.status = StatusOfKind[KindOf(last.res)]

----------------------------------------------------------------------------
\* The step is a verify-otp that answers "verified".
VerifiedStep == VerifyStep /\ last'.res = OtpVerified

\* C12 as stated: verification is not an atomic compare-and-delete: the
\* handler's comparison and its delete are separate steps, so the step in
\* which a verify-otp matches the stored code leaves P's record in the store
\* (where a send-otp for P can overwrite it before the delete runs).
C12_VerifyComparesThenDeletesLater ==
    [][ VerifiedStep => IsRecord(OtpAfter(last'.body.phoneNumber.val)) ]_vars

\* C12 as amended: the verify-otp handler reads, compares and deletes in one
\* step, whatever send-otp requests are in flight: the record it has matched
\* is the one a lookup of P yields when the step begins, unexpired and
\* holding the submitted code; the store it leaves is that store after
\* `delete otpStore[P]`; and the step touches no request in flight but to
\* flag those of P.
C12_VerifyDeletesWhatItMatched ==
    [][ VerifiedStep
        => LET P == last'.body.phoneNumber.val
           IN /\ IsRecord(OtpOf(P))
              /\ last'.body.otp = Str(CodeOf(OtpOf(P)))
              /\ now <= ExpiryOf(OtpOf(P))
              /\ otpStore' = DeleteProp(otpStore, P)
              /\ BagCardinality(pending') = BagCardinality(pending)
              /\ \A r \in DOMAIN pending' : r.to = P => r.stale
      ]_vars

\* A verify-otp has succeeded and removed the record while two send-otp
\* requests for its phone number, with different codes, were suspended at
\* the delivery call.
C12_Witness ==
    /\ last.op = "verify-otp"
    /\ last.res = OtpVerified
    /\ ~IsRecord(OtpOf(last.body.phoneNumber.val))
    /\ \E r1, r2 \in DOMAIN pending :
         /\ r1.to = last.body.phoneNumber.val
         /\ r2.to = last.body.phoneNumber.val
         /\ r1.otp # r2.otp
         /\ last.body.otp = Str(r2.otp)

----------------------------------------------------------------------------
\* The step is the success response of a send-otp whose delivery resolved.
DeliveredStep == last'.op = "send-otp-delivered"

\* C13 as stated: whenever a send-otp for P responds with success, the store
\* holds at that moment a record for P with the code of that request, so
\* that the code verifies successfully exactly once within the TTL (a first
\* verify-otp with it succeeds, a second one does not), whatever other
\* send-otp and verify-otp requests ran while the delivery was pending.
\* (The clock stands still here, so every record is within its TTL.)
C13_SuccessMeansCodeStored ==
    [][ DeliveredStep
        => /\ last'.res = OtpSent
           /\ IsRecord(OtpAfter(last'.to))
           /\ CodeOf(OtpAfter(last'.to)) = last'.otp
           /\ LET body == VerifyBody(last'.to, last'.otp)
                  first == verifyOtp(intrinsics', otpStore', now', body)
              IN /\ first.res = OtpVerified
                 /\ verifyOtp(intrinsics', first.store, now', body).res # OtpVerified
      ]_vars

----------------------------------------------------------------------------
\* C14: a verify-otp for P against a record whose expiry has passed answers
\* "expired" whatever code it submits and leaves the store as it was; a
\* record whose expiry has passed is left untouched by every step but a
\* send-otp for its phone number, which overwrites it with a fresh record.
C14_ExpiredRecordStays ==
    [][ /\ (/\ VerifyStep
            /\ IsRecord(OtpOf(last'.body.phoneNumber.val))
            /\ now > ExpiryOf(OtpOf(last'.body.phoneNumber.val)))
           => /\ last'.res = OtpExpired
              /\ otpStore' = otpStore
        /\ \/ OtpLookupsUntouched /\ ~IssueStep
           \/ \A Q \in OtpPhones :
                (IsRecord(OtpOf(Q)) /\ now > ExpiryOf(OtpOf(Q)))
                => IF IssueStep /\ last'.body.phoneNumber.val = Q
                   THEN OtpAfter(Q) = OtpRecord(last'.otp, now + TTL)
                   ELSE OtpAfter(Q) = OtpOf(Q)
      ]_vars

\* A verify-otp with a code other than the stored one has been answered
\* "expired", and the expired record is still in the store.
C14_Witness ==
    /\ last.op = "verify-otp"
    /\ last.res = OtpExpired
    /\ IsRecord(OtpOf(last.body.phoneNumber.val))
    /\ now > ExpiryOf(OtpOf(last.body.phoneNumber.val))
    /\ last.body.otp # Str(CodeOf(OtpOf(last.body.phoneNumber.val)))

----------------------------------------------------------------------------
\* The step is the response of a send-otp whose delivery call has settled.
SettledStep == last'.op \in {"send-otp-delivered", "send-otp-failed"}

\* C15: when send-otp requests for one phone number P are suspended at the
\* delivery call together, P's record is the one of the request that wrote
\* last: a send-otp that finds requests for P in flight replaces the record
\* by its own; no delivery that resolves or fails, in whatever order, changes
\* the store; each request in flight can still be answered with success; and
\* when an overwritten request is answered while the record is unexpired,
\* its code is refused as invalid and the stored code verifies.
C15_LastStoreWriteWins ==
    [][ /\ IssueStep
           => LET P == last'.body.phoneNumber.val
              IN /\ OtpAfter(P) = OtpRecord(last'.otp, now + TTL)
                 /\ \A r \in DOMAIN pending : r.to = P =>
                      [r EXCEPT !.stale = TRUE] \in DOMAIN pending'
        /\ SettledStep => otpStore' = otpStore
        /\ \A r \in DOMAIN pending :
             /\ ENABLED MessagesCreateResolve(r)
             /\ ~r.stale => IsRecord(OtpOf(r.to)) /\ CodeOf(OtpOf(r.to)) = r.otp
        /\ (/\ SettledStep
            /\ last'.stale
            /\ IsRecord(OtpAfter(last'.to))
            /\ CodeOf(OtpAfter(last'.to)) # last'.otp
            /\ now' <= ExpiryOf(OtpAfter(last'.to)))
           => /\ verifyOtp(intrinsics', otpStore', now',
                           VerifyBody(last'.to, last'.otp)).res = OtpInvalid
              /\ verifyOtp(intrinsics', otpStore', now',
                           VerifyBody(last'.to, CodeOf(OtpAfter(last'.to)))).res
                   = OtpVerified
      ]_vars

\* Of two send-otp requests in flight for one phone number, the one that
\* wrote first has been answered with success; the store holds the code of
\* the other, which is still suspended at its delivery call.
C15_Witness ==
    /\ last.op = "send-otp-delivered"
    /\ last.res = OtpSent
    /\ last.stale
    /\ \E r \in DOMAIN pending :
         /\ r.to = last.to
         /\ ~r.stale
         /\ r.otp # last.otp
         /\ CodeOf(OtpOf(last.to)) = r.otp
         /\ verifyOtp(intrinsics, otpStore, now, VerifyBody(last.to, last.otp)).res
              = OtpInvalid

----------------------------------------------------------------------------
OtpOps == {"send-otp", "send-otp-delivered", "send-otp-failed", "verify-otp"}
ProfileOps == {"create-profile", "update-profile", "get-profile"}

\* C16 as stated: a send-otp step, a delivery that settles and a verify-otp
\* leave the profile store as it was, and what a fetch of any phone number
\* answers; a profile create, update or fetch leaves the OTP store and the
\* requests in flight as they were, and what a verify-otp of any phone
\* number and code answers; and the response and the profile store a create
\* or an update leaves are those the handler computes from the profile store
\* and the request, whatever code was issued or verified.
C16_StoresIndependent ==
    [][ /\ last'.op \in OtpOps
           => /\ userStore' = userStore
              /\ \A P \in ProfilePhones :
                   getProfile(intrinsics', userStore', P)
                     = getProfile(intrinsics, userStore, P)
        /\ last'.op \in ProfileOps
           => /\ otpStore' = otpStore
              /\ pending' = pending
              /\ \A body \in SharedVerifyBodies :
                   verifyOtp(intrinsics', otpStore', now', body).res
                     = verifyOtp(intrinsics, otpStore, now, body).res
        /\ last'.op = "create-profile"
           => [res |-> last'.res, store |-> userStore']
                = createProfile(intrinsics, userStore, last'.contentType,
                                last'.body, last'.file)
        /\ last'.op = "update-profile"
           => [res |-> last'.res, store |-> userStore', intrinsics |-> intrinsics']
                = updateProfile(intrinsics, userStore, last'.phoneNumber,
                                last'.contentType, last'.body, last'.file)
      ]_vars

----------------------------------------------------------------------------
\* C17: no step removes a profile record: every phone number whose lookup
\* yields a record keeps one, and every record has a non-empty name (the one
\* a create or an update gave it); a create that succeeds leaves a record
\* under its phone number; so an update or a fetch of a phone number that
\* has a record is never answered "User not found".
C17_ProfileNeverDeleted ==
    [][ /\ \/ UserLookupsUntouched
           \/ \A P \in ProfilePhones :
                /\ IsRecord(UserOf(P)) => IsRecord(UserAfter(P))
                /\ IsRecord(UserAfter(P))
                   => /\ Has(UserAfter(P).props, "name")
                      /\ Truthy(UserAfter(P).props.name)
        /\ (last'.op = "create-profile" /\ last'.res = ProfileUpdated)
           => IsRecord(UserAfter(last'.body.phoneNumber.val))
        /\ (/\ last'.op \in {"update-profile", "get-profile"}
            /\ IsRecord(UserOf(last'.phoneNumber)))
           => /\ last'.res.status = 200
              /\ last'.res.success = TRUE
              /\ last'.res.user = UserAfter(last'.phoneNumber)
      ]_vars

\* A fetch has found the record of a phone number that was created and has
\* since been updated: it has its name, and the about the update gave it.
C17_Witness ==
    /\ last.op = "get-profile"
    /\ last.res.status = 200
    /\ IsRecord(UserOf(last.phoneNumber))
    /\ Truthy(UserOf(last.phoneNumber).props.name)
    /\ Has(UserOf(last.phoneNumber).props, "about")

----------------------------------------------------------------------------
\* The request r is still suspended after the step (its flag may be raised).
StillSuspended(r) ==
    r \in DOMAIN pending' \/ [r EXCEPT !.stale = TRUE] \in DOMAIN pending'

\* A step suspends or resumes only the request it belongs to, and every
\* handler but a send-otp reaching its await answers in its own step.
SuspendsOnlyItsRequest ==
    /\ IssueStep
       => /\ last'.res = NoResponse
          /\ CodeOf(OtpAfter(last'.body.phoneNumber.val)) = last'.otp
          /\ Awaiting(last'.body.phoneNumber.val, last'.otp) \in DOMAIN pending'
          /\ InFlight' = InFlight + 1
    /\ SettledStep => InFlight' = InFlight - 1
    /\ ~SettledStep => \A r \in DOMAIN pending : StillSuspended(r)
    /\ (~IssueStep /\ "res" \in DOMAIN last') => last'.res.status # 0

\* While requests are suspended every other request can be handled, and the
\* code of a suspended request whose record is stored, unexpired, verifies.
ServesWhileSuspended ==
    pending # EmptyBag
    => /\ \A body \in RaceVerifyBodies : ENABLED VerifyOtp(body)
       /\ \A body \in SendOtpBodies \cup RaceSendBodies : ENABLED SendOtp(body)
       /\ \A P \in ProfilePhones : ENABLED GetProfile(P)
       /\ \A P \in Phones :
            ENABLED CreateProfile(JsonBody, [name |-> Str("A"), phoneNumber |-> Str(P)], NoFile)
       /\ \A P \in ProfilePhones :
            ENABLED UpdateProfile(P, JsonBody, [name |-> Undefined, about |-> Str("hi")], NoFile)
       /\ \A r \in DOMAIN pending :
            (~r.stale /\ now <= ExpiryOf(OtpOf(r.to)))
            => ENABLED (/\ VerifyOtp(VerifyBody(r.to, r.otp))
                        /\ last'.res = OtpVerified
                        /\ StillSuspended(r))

\* C18: a send-otp whose delivery call has not returned stays suspended,
\* unanswered, through every step but the settling of a delivery, and has
\* written its record before it was suspended; while requests are suspended
\* every verify-otp, send-otp and profile request is still enabled and gets
\* its answer in its own step, and a verify-otp with the code of a suspended
\* request whose record is still stored, unexpired, answers "verified".
C18_HungDeliveryBlocksOnlyItsRequest ==
    [][SuspendsOnlyItsRequest]_vars /\ []ServesWhileSuspended

\* A verify-otp has been answered "verified" with the code of a send-otp
\* that is still suspended at its delivery call, another send-otp being
\* suspended as well.
C18_Witness ==
    /\ last.op = "verify-otp"
    /\ last.res = OtpVerified
    /\ InFlight = 2
    /\ \E r \in DOMAIN pending :
         /\ r.to = last.body.phoneNumber.val
         /\ Str(r.otp) = last.body.otp
         /\ r.stale

----------------------------------------------------------------------------
\* C19: P's record leaves the OTP store only in a verify-otp for P that
\* answers "verified", and is written only in a send-otp for P that stores
\* a code: every other step (a request for another phone number, a
\* verify-otp that fails for whatever reason, a send-otp refused for its
\* missing phone number, a delivery that settles, the passing of time)
\* leaves P's record, or its absence, as it was.
C19_RecordLeavesOnlyByVerifyChangesOnlyBySend ==
    [][ \/ OtpLookupsUntouched /\ ~IssueStep /\ ~VerifiedStep
        \/ \A P \in OtpPhones :
             LET before == OtpOf(P)
                 after == OtpAfter(P)
                 VerifiedP == /\ VerifiedStep
                              /\ last'.body.phoneNumber = Str(P)
                 IssuedP == /\ IssueStep
                            /\ last'.body.phoneNumber = Str(P)
             IN /\ (IsRecord(before) /\ ~IsRecord(after)) => VerifiedP
                /\ (IsRecord(after) /\ after # before) => IssuedP
                /\ IssuedP => after = OtpRecord(last'.otp, now + TTL)
                /\ (~VerifiedP /\ ~IssuedP /\ (IsRecord(before) \/ IsRecord(after)))
                   => after = before
      ]_vars

\* A verify-otp with a wrong code for one phone number has left the records
\* of both phone numbers in the store.
C19_Witness ==
    /\ last.op = "verify-otp"
    /\ last.res = OtpInvalid
    /\ \A P \in Phones : IsRecord(OtpOf(P))

====
